---- MODULE Spec2Model ----
(***************************************************************************)
(* Trigger / pipeline engine of DrSui/code-engine.                         *)
(*                                                                         *)
(*   main.py      register_trigger, webhook_receiver (API process)         *)
(*   tasks.py     execute_pipeline, run_logic and helpers (celery worker)  *)
(*   executor.py  run_code (sandbox service)                               *)
(*                                                                         *)
(* Python values are modelled as tagged records, Python dicts as TLA+      *)
(* functions whose domain is the set of keys.                              *)
(***************************************************************************)
EXTENDS Integers, Sequences, FiniteSets, Bags, TLC

VARIABLES store, queue, lastReq, resp, nCalls, run, nRuns, sent, finished

vars == <<store, queue, lastReq, resp, nCalls, run, nRuns, sent, finished>>

----------------------------------------------------------------------------
(* Bounds of the model *)

MaxCalls == 2      \* API calls (register_trigger + webhook_receiver) handled
MaxRuns == 2       \* execute_pipeline invocations started by the worker
MaxNow == 4        \* latest reading of the clock, in half seconds

----------------------------------------------------------------------------
(* Python / JSON values *)

None == [t |-> "none"]
True == [t |-> "bool", b |-> TRUE]
False == [t |-> "bool", b |-> FALSE]
Bool(x) == [t |-> "bool", b |-> x]
IntV(n) == [t |-> "int", i |-> n]
StrV(x) == [t |-> "str", s |-> x]
Dict(f) == [t |-> "dict", d |-> f]
ListV(x) == [t |-> "list", l |-> x]
EmptyDict == Dict(<<>>)

IsDict(v) == v.t = "dict"
IsStr(v) == v.t = "str"
IsList(v) == v.t = "list"

\* d.get(k) and d.get(k, default) on a raw dict (function over its keys)
GetOr(d, k, default) == IF k \in DOMAIN d THEN d[k] ELSE default
Get(d, k) == GetOr(d, k, None)

\* Python truthiness of the values that occur
Truthy(v) ==
    CASE v.t = "none" -> FALSE
      [] v.t = "bool" -> v.b
      [] v.t = "int" -> v.i # 0
      [] v.t = "str" -> v.s # ""
      [] v.t = "dict" -> DOMAIN v.d # {}
      [] v.t = "list" -> Len(v.l) > 0
      [] OTHER -> TRUE

\* json.loads on the texts that occur: "5" is a number, "\"5\"" a string,
\* "null" is None, "{}" an object; every other text fails to parse.
JsonParses(s) == s \in {"5", "\"5\"", "null", "{}"}

JsonLoads(s) ==
    CASE s = "5" -> IntV(5)
      [] s = "\"5\"" -> StrV("5")
      [] s = "null" -> None
      [] s = "{}" -> EmptyDict

_coerce_prev(prev) ==
    IF IsStr(prev) /\ JsonParses(prev.s) THEN JsonLoads(prev.s) ELSE prev

----------------------------------------------------------------------------
(* executor.py: the sandbox service *)

\* the defaults of the settings read from the environment at start
CUSTOM_TIMEOUT == 5
REQUEST_TIMEOUT == 10
DEFAULT_TIMEOUT == 5

\* The settings a worker can start with: CUSTOM_TIMEOUT_SECONDS and
\* EXECUTOR_REQUEST_TIMEOUT are read independently of each other
DefaultConfig ==
    [CUSTOM_TIMEOUT |-> CUSTOM_TIMEOUT, REQUEST_TIMEOUT |-> REQUEST_TIMEOUT]

Configs ==
    { DefaultConfig,
      [CUSTOM_TIMEOUT |-> CUSTOM_TIMEOUT, REQUEST_TIMEOUT |-> CUSTOM_TIMEOUT],
      [CUSTOM_TIMEOUT |-> 0, REQUEST_TIMEOUT |-> 3] }

\* str.strip() leaves nothing
Blank(s) == s \in {"", " "}

\* What the child process does and what the host of the service allows.
\* kind: the child exits with a return code and a stdout text ("exit"),
\* outlives the wall-clock timeout with a partial stdout, possibly None
\* ("timeout"), burns more CPU time than RLIMIT_CPU allows and would go on
\* past the wall-clock timeout ("cpu"), cannot be spawned ("oserror"); or
\* the temporary file cannot be created ("tmpfail") or written ("writefail").
\* host: preexec_fn is accepted and setrlimit works ("limits"), preexec_fn
\* is accepted but setrlimit fails ("nolimits"), preexec_fn is rejected with
\* a TypeError ("fallback").
Children ==
    { [kind |-> "exit", returncode |-> 0, stdout |-> StrV("5"), host |-> "limits"],
      [kind |-> "exit", returncode |-> 0, stdout |-> StrV("hello"), host |-> "limits"],
      [kind |-> "exit", returncode |-> 0, stdout |-> StrV("null"), host |-> "limits"],
      [kind |-> "exit", returncode |-> 1, stdout |-> StrV("hello"), host |-> "limits"],
      [kind |-> "exit", returncode |-> 1, stdout |-> StrV(""), host |-> "limits"],
      [kind |-> "exit", returncode |-> 1, stdout |-> StrV("5"), host |-> "limits"],
      [kind |-> "timeout", returncode |-> 0, stdout |-> StrV("hello"), host |-> "limits"],
      [kind |-> "timeout", returncode |-> 0, stdout |-> None, host |-> "limits"],
      [kind |-> "oserror", returncode |-> 0, stdout |-> None, host |-> "limits"],
      [kind |-> "cpu", returncode |-> 0, stdout |-> StrV("hello"), host |-> "limits"],
      [kind |-> "cpu", returncode |-> 0, stdout |-> StrV("hello"), host |-> "nolimits"],
      [kind |-> "exit", returncode |-> 0, stdout |-> StrV("5"), host |-> "fallback"],
      [kind |-> "timeout", returncode |-> 0, stdout |-> StrV("hello"), host |-> "fallback"],
      [kind |-> "tmpfail", returncode |-> 0, stdout |-> None, host |-> "limits"],
      [kind |-> "writefail", returncode |-> 0, stdout |-> None, host |-> "limits"] }

\* the number of the signal that ends a child over its RLIMIT_CPU
SIGXCPU == 24

\* whether the limits are in force in the child after _set_limits ran
_set_limits(host) == host = "limits"

\* subprocess.run on the temporary file, with or without preexec_fn:
\* [raised, returncode, stdout, spawned, child]. A child past the wall-clock
\* timeout is killed and TimeoutExpired raised; a child past RLIMIT_CPU is
\* killed by the kernel and completes with the negated signal number.
subprocess_run(child, preexec) ==
    LET Raise(e, n, st) == [raised |-> e, returncode |-> 0,
                            stdout |-> child.stdout, spawned |-> n,
                            child |-> st]
    IN  IF preexec /\ child.host = "fallback" THEN Raise("TypeError", 0, "none")
        ELSE CASE child.kind = "oserror" -> Raise("OSError", 0, "none")
               [] child.kind = "timeout" -> Raise("TimeoutExpired", 1, "killed")
               [] child.kind = "cpu" ->
                    IF preexec /\ _set_limits(child.host)
                    THEN [raised |-> "none", returncode |-> 0 - SIGXCPU,
                          stdout |-> child.stdout, spawned |-> 1,
                          child |-> "killed"]
                    ELSE Raise("TimeoutExpired", 1, "killed")
               [] child.kind = "exit" ->
                    [raised |-> "none", returncode |-> child.returncode,
                     stdout |-> child.stdout, spawned |-> 1,
                     child |-> "exited"]

\* a handler without the finally clause: the file is removed only when the
\* try block is left by its last return
finally_unlink_on_return(tmp_path_set, exists, how) ==
    exists /\ ~(tmp_path_set /\ how = "return")

\* the finally clause of run_code: whether the temporary file is still there
\* afterwards. It runs however the try block was left (how).
finally_unlink(tmp_path_set, exists, how) ==
    exists /\ ~tmp_path_set

\* One call of POST /run: [status, body, tmp_created, tmp_left, spawned,
\* child, proc, how, timeout]: the HTTP status and body of the response, whether a
\* temporary file was created and whether it is left behind, how many
\* processes were started, how the child ended, what the child and the host
\* were like (proc), how the handler was left, and the wall-clock timeout
\* in seconds that the call applies
run_code_call(req, child) ==
    LET code == req.code
        timeout == IF Truthy(req.timeout_seconds) THEN req.timeout_seconds
                   ELSE IntV(DEFAULT_TIMEOUT)
        Out(status, body, created, path_set, n, st, how) ==
            [status |-> status, body |-> body, tmp_created |-> created,
             tmp_left |-> finally_unlink(path_set, created, how),
             spawned |-> n, child |-> st, proc |-> child, how |-> how,
             timeout |-> timeout.i]
        Exc(e, created, n, st) ==
            Out(200, Dict([ok |-> False, error |-> StrV(e),
                           traceback |-> StrV("traceback")]),
                created, created, n, st, "except")
    IN  IF ~Truthy(code) \/ ~IsStr(code) \/ Blank(code.s)
        THEN [status |-> 400, body |-> Dict([detail |-> StrV("empty code")]),
              tmp_created |-> FALSE, tmp_left |-> FALSE, spawned |-> 0,
              child |-> "none", proc |-> child, how |-> "raise",
              timeout |-> timeout.i]
        ELSE IF child.kind = "tmpfail" THEN Exc("oserror", FALSE, 0, "none")
        ELSE IF child.kind = "writefail" THEN Exc("oserror", TRUE, 0, "none")
        ELSE
        LET first == subprocess_run(child, TRUE)
            p == IF first.raised = "TypeError"
                 THEN subprocess_run(child, FALSE) ELSE first
        IN  CASE first.raised = "TypeError" /\ p.raised # "none" ->
                    \* raised inside the except TypeError clause
                    Exc(IF p.raised = "TimeoutExpired" THEN "timed out"
                        ELSE "oserror", TRUE, p.spawned, p.child)
              [] p.raised = "TimeoutExpired" ->
                    Out(200, Dict([ok |-> False, error |-> StrV("timeout"),
                                   timeout_seconds |-> timeout,
                                   stdout |-> p.stdout, stderr |-> None]),
                        TRUE, TRUE, p.spawned, p.child, "timeout")
              [] p.raised = "OSError" -> Exc("oserror", TRUE, 0, "none")
              [] p.raised = "none" ->
                    LET stdout == p.stdout
                        parsed == IF JsonParses(stdout.s)
                                  THEN JsonLoads(stdout.s) ELSE None
                    IN  Out(200, Dict([ok |-> Bool(p.returncode = 0),
                                       returncode |-> IntV(p.returncode),
                                       stdout |-> IF parsed # None THEN parsed
                                                  ELSE stdout,
                                       stderr |-> StrV("")]),
                            TRUE, TRUE, p.spawned, p.child, "return")

\* The body of the HTTP response of POST /run
run_code(req, child) == run_code_call(req, child).body

\* The transport between worker and sandbox service
Nets == {"ok", "unreachable", "nonjson"}

\* the JSON body the worker posts to the service
executor_body(code_str, prev, params, payload, cfg) ==
    [code |-> code_str, prev |-> prev, params |-> params,
     payload |-> payload, timeout_seconds |-> IntV(cfg.CUSTOM_TIMEOUT)]

\* what the request does at the service; nothing when it does not arrive
NotReached ==
    [status |-> 0, body |-> None, tmp_created |-> FALSE, tmp_left |-> FALSE,
     spawned |-> 0, child |-> "none",
     proc |-> [kind |-> "none", returncode |-> 0, stdout |-> None,
               host |-> "none"],
     how |-> "none", timeout |-> 0]

executor_call(code_str, prev, params, payload, net, child, cfg) ==
    IF net = "ok"
    THEN run_code_call(executor_body(code_str, prev, params, payload, cfg),
                       child)
    ELSE NotReached

\* the service answers only once its wall-clock timeout has passed, and the
\* worker has stopped waiting for the answer by then
transport_times_out(e, cfg) ==
    /\ e.child = "killed" /\ e.how \in {"timeout", "except"}
    /\ cfg.REQUEST_TIMEOUT <= e.timeout

_call_executor_service(code_str, prev, params, payload, net, child, cfg) ==
    LET e == executor_call(code_str, prev, params, payload, net, child, cfg)
    IN  CASE net = "unreachable" ->
                Dict([ok |-> False,
                      error |-> StrV("executor request failed")])
          [] net = "nonjson" ->
                Dict([ok |-> False,
                      error |-> StrV("executor returned non-json"),
                      status_code |-> IntV(502), text |-> StrV("bad gateway")])
          [] net = "ok" ->
                IF transport_times_out(e, cfg)
                THEN Dict([ok |-> False,
                           error |-> StrV("executor request failed")])
                ELSE e.body

----------------------------------------------------------------------------
(* tasks.py: logic resolver and handler loader *)

\* The mapping file at the moment it is read
MappingFiles ==
    { [kind |-> "absent", v |-> None],
      [kind |-> "corrupt", v |-> None],
      [kind |-> "json", v |-> ListV(<<>>)],
      [kind |-> "json", v |-> Dict([do_something |-> StrV("do_something.py")])],
      [kind |-> "json", v |-> Dict([do_something |-> StrV("sub/gone.py")])],
      [kind |-> "json", v |-> Dict([do_something |-> IntV(7)])] }

load_mapping(file) ==
    IF file.kind = "json" /\ IsDict(file.v) THEN file.v.d ELSE <<>>

\* os.path.basename on the paths that occur
Basename(path) ==
    CASE path = "sub/gone.py" -> "gone.py"
      [] path = "../secret.py" -> "secret.py"
      [] OTHER -> path

\* The path inside API_CALLS_DIR, relative to that directory
safe_join_api_calls(filename) == Basename(filename)

\* The files of API_CALLS_DIR at the moment of the call (paths relative to it)
\* and of its parent directory ("../")
FileSystems == { {}, {"do_something.py"}, {"../secret.py"},
                 {"../secret.py", "secret.py"} }

\* What a handler file contains: whether it loads (load: "ok", "error" when
\* executing the module raises an Exception, "exit" when it raises
\* SystemExit), which of run / handler / main it defines as callables, how
\* many parameters the chosen one declares, and what that function does: it
\* returns 5, its first argument or the text "5", raises an Exception, or
\* raises SystemExit
Modules ==
    { [load |-> "error", entries |-> {}, pcount |-> 0, body |-> "five"],
      [load |-> "exit", entries |-> {}, pcount |-> 0, body |-> "five"],
      [load |-> "ok", entries |-> {}, pcount |-> 0, body |-> "five"],
      [load |-> "ok", entries |-> {"run"}, pcount |-> 3, body |-> "first"],
      [load |-> "ok", entries |-> {"run", "main"}, pcount |-> 3, body |-> "qfive"],
      [load |-> "ok", entries |-> {"run"}, pcount |-> 3, body |-> "raise"],
      [load |-> "ok", entries |-> {"run"}, pcount |-> 3, body |-> "exit"],
      [load |-> "ok", entries |-> {"run", "handler", "main"}, pcount |-> 4,
       body |-> "first"],
      [load |-> "ok", entries |-> {"handler", "main"}, pcount |-> 2, body |-> "first"],
      [load |-> "ok", entries |-> {"main"}, pcount |-> 1, body |-> "first"],
      [load |-> "ok", entries |-> {"main"}, pcount |-> 0, body |-> "five"] }

\* `except Exception` catches every exception class but those deriving from
\* BaseException only
IsException(exc) == exc \notin {"SystemExit", "KeyboardInterrupt"}

\* an entry point search that prefers main
entry_point_main_first(entries) ==
    IF "main" \in entries THEN "main"
    ELSE IF "handler" \in entries THEN "handler"
    ELSE IF "run" \in entries THEN "run"
    ELSE "none"

\* the first of run, handler, main that the module defines as a callable
entry_point(entries) ==
    IF "run" \in entries THEN "run"
    ELSE IF "handler" \in entries THEN "handler"
    ELSE IF "main" \in entries THEN "main"
    ELSE "none"

\* the arguments for a function declaring pcount parameters
call_args(pcount, prev, params, payload) ==
    IF pcount >= 3 THEN <<prev, params, payload>>
    ELSE IF pcount = 2 THEN <<params, payload>>
    ELSE IF pcount = 1 THEN <<payload>>
    ELSE <<>>

\* [raised, exc, error, value, calls]: the entry point chosen, the arguments
\* it is called with, what it returns or what it raises
_call_module_callable(module, prev, params, payload) ==
    LET fn == entry_point(module.entries)
        args == call_args(module.pcount, prev, params, payload)
        call == [to |-> "handler", fn |-> fn, args |-> args]
        Raise(exc, error, calls) ==
            [raised |-> TRUE, exc |-> exc, error |-> error, value |-> None,
             calls |-> calls]
        Return(v) == [raised |-> FALSE, exc |-> "", error |-> "",
                      value |-> v, calls |-> <<call>>]
    IN  IF fn = "none"
        THEN Raise("AttributeError",
                   "no callable 'run'/'handler'/'main' in module", <<>>)
        ELSE CASE module.body = "raise" ->
                    Raise("Exception", "exception", <<call>>)
               [] module.body = "exit" -> Raise("SystemExit", "", <<call>>)
               [] module.body = "first" ->
                    Return(IF Len(args) > 0 THEN args[1] ELSE None)
               [] module.body = "five" -> Return(IntV(5))
               [] module.body = "qfive" -> Return(StrV("\"5\""))

\* [raised, exc, res, calls, loaded]: the outcome dict and the handler call
\* made, if any; raised when an exception passes the except clause
_execute_api_call_file(file_path, prev, params, payload, exists, module) ==
    LET Err(error, calls, loaded) ==
            [raised |-> FALSE, exc |-> "",
             res |-> Dict([ok |-> False, error |-> StrV(error),
                           traceback |-> StrV("traceback")]),
             calls |-> calls, loaded |-> loaded]
        Escape(exc, calls) ==
            [raised |-> TRUE, exc |-> exc, res |-> None, calls |-> calls,
             loaded |-> <<file_path>>]
    IN  IF ~exists
        THEN [raised |-> FALSE, exc |-> "",
              res |-> Dict([ok |-> False, error |-> StrV("File not found")]),
              calls |-> <<>>, loaded |-> <<>>]
        ELSE IF module.load = "error"
        THEN Err("load error", <<>>, <<file_path>>)
        ELSE IF module.load = "exit"
        THEN Escape("SystemExit", <<>>)
        ELSE LET r == _call_module_callable(module, prev, params, payload)
             IN  IF r.raised /\ IsException(r.exc)
                 THEN Err(r.error, r.calls, <<file_path>>)
                 ELSE IF r.raised
                 THEN Escape(r.exc, r.calls)
                 ELSE [raised |-> FALSE, exc |-> "",
                       res |-> Dict([ok |-> True, result |-> r.value]),
                       calls |-> r.calls, loaded |-> <<file_path>>]

----------------------------------------------------------------------------
(* tasks.py: node dispatcher *)

\* Everything outside the worker that one call of run_logic observes
FileEnvs ==
    [mapping : MappingFiles, files : FileSystems, gone : BOOLEAN,
     module : Modules, net : {"ok"},
     child : {[kind |-> "oserror", returncode |-> 0, stdout |-> None,
               host |-> "limits"]},
     cfg : {DefaultConfig}]

SandboxEnvs ==
    [mapping : {[kind |-> "absent", v |-> None]}, files : {{}},
     gone : {FALSE},
     module : {[load |-> "error", entries |-> {}, pcount |-> 0,
                body |-> "five"]},
     net : Nets, child : Children, cfg : {DefaultConfig}]
    \cup
    [mapping : {[kind |-> "absent", v |-> None]}, files : {{}},
     gone : {FALSE},
     module : {[load |-> "error", entries |-> {}, pcount |-> 0,
                body |-> "five"]},
     net : {"ok"},
     child : {[kind |-> "exit", returncode |-> 0, stdout |-> StrV("5"),
               host |-> "limits"],
              [kind |-> "timeout", returncode |-> 0, stdout |-> StrV("hello"),
               host |-> "limits"]},
     cfg : Configs]

Envs == FileEnvs \cup SandboxEnvs

\* The environments met by the runs of the whole system: a handler that
\* returns its first argument, a mapping with a non-string location, a
\* sandbox child that prints 5, one that times out
SysEnvs ==
    { e \in FileEnvs :
        /\ e.files = {"do_something.py"} /\ ~e.gone
        /\ e.module = [load |-> "ok", entries |-> {"run"}, pcount |-> 3,
                       body |-> "first"]
        /\ e.mapping.kind = "json" /\ IsDict(e.mapping.v)
        /\ e.mapping.v.d.do_something \in {StrV("do_something.py"), IntV(7)} }
    \cup
    { e \in SandboxEnvs :
        /\ e.net = "ok" /\ e.cfg = DefaultConfig
        /\ e.child \in {[kind |-> "exit", returncode |-> 0,
                         stdout |-> StrV("5"), host |-> "limits"],
                        [kind |-> "timeout", returncode |-> 0,
                         stdout |-> StrV("hello"), host |-> "limits"]} }

\* no_pass that only knows the "NO PASS THROUGH" key
no_pass_key_only(node_meta) ==
    /\ DOMAIN node_meta # {}
    /\ Get(node_meta, "NO PASS THROUGH") = True

\* the NO PASS THROUGH detection of run_logic
no_pass(node_meta) ==
    /\ DOMAIN node_meta # {}
    /\ \/ Get(node_meta, "NO PASS THROUGH") = True
       \/ Get(node_meta, "no_pass_through") = True
       \/ LET tags == Get(node_meta, "tags")
          IN  /\ IsList(tags)
              /\ \E i \in 1..Len(tags.l) : tags.l[i] = StrV("NO PASS THROUGH")

is_custom(logic_name, params) ==
    \/ logic_name = StrV("custom")
    \/ IsDict(params) /\ Get(params.d, "_type") = StrV("custom")

\* the code string of an inline node
code_of(params) ==
    IF ~IsDict(params) THEN None
    ELSE LET c == Get(params.d, "code")
             a == Get(params.d, "args")
         IN  IF c = None /\ IsList(a) /\ Len(a.l) > 0 THEN a.l[1] ELSE c

\* the file system as seen by a call that looks at none of it
NoModule == [load |-> "none", entries |-> {}, pcount |-> 0, body |-> "none"]

NoFs == [mapping |-> [kind |-> "unread", v |-> None], probed |-> <<>>,
         loaded |-> <<>>, module |-> NoModule]

\* [raised, exc, res, calls, fs]: raised when an exception escapes run_logic,
\* else the outcome res; calls is the handler or sandbox call made (at most
\* one); fs is the mapping file read, the paths probed with os.path.exists
\* and the path loaded, all relative to API_CALLS_DIR, and the module found
\* in the file loaded
run_logic(logic_name, params, payload, prev_output, node_meta, env) ==
    LET prev_to_pass ==
            _coerce_prev(IF no_pass(node_meta) THEN None ELSE prev_output)
        Ret(v, fs) == [raised |-> FALSE, exc |-> "", res |-> v,
                       calls |-> <<>>, fs |-> fs]
    IN  IF is_custom(logic_name, params)
        THEN LET code_str == code_of(params)
             IN  IF ~Truthy(code_str)
                 THEN Ret(Dict([ok |-> False,
                                error |-> StrV("custom node requires params['code'] (string)")]),
                          NoFs)
                 ELSE [raised |-> FALSE, exc |-> "",
                       res |-> _call_executor_service(code_str, prev_to_pass,
                                   params, payload, env.net, env.child,
                                   env.cfg),
                       calls |-> <<[to |-> "sandbox", fn |-> "run",
                                    args |-> <<prev_to_pass, params,
                                               payload>>,
                                    exec |-> executor_call(code_str,
                                                prev_to_pass, params, payload,
                                                env.net, env.child,
                                                env.cfg),
                                    cfg |-> env.cfg]>>,
                       fs |-> NoFs]
        ELSE
        LET mapping == load_mapping(env.mapping)
            mapped == IF IsStr(logic_name) THEN Get(mapping, logic_name.s)
                      ELSE None
            guessed == logic_name.s \o ".py"
            filename == IF Truthy(mapped) THEN mapped ELSE StrV(guessed)
            probe1 == IF Truthy(mapped) THEN <<>> ELSE <<guessed>>
            Fs(probed, loaded) ==
                [mapping |-> env.mapping, probed |-> probed,
                 loaded |-> loaded,
                 module |-> IF loaded = <<>> THEN NoModule ELSE env.module]
        IN  IF ~Truthy(mapped) /\ guessed \notin env.files
            THEN Ret(Dict([ok |-> False,
                           error |-> StrV("no file mapping for logic"),
                           logic |-> logic_name]),
                     Fs(probe1, <<>>))
            ELSE IF ~IsStr(filename)
            THEN [raised |-> TRUE, exc |-> "TypeError", res |-> None,
                  calls |-> <<>>, fs |-> Fs(probe1, <<>>)]
            ELSE LET file_path == safe_join_api_calls(filename.s)
                     probed == probe1 \o <<file_path>>
                 IN  IF file_path \notin env.files
                     THEN Ret(Dict([ok |-> False,
                                    error |-> StrV("mapped file not found"),
                                    path |-> StrV(file_path)]),
                              Fs(probed, <<>>))
                     ELSE LET r == _execute_api_call_file(file_path,
                                       prev_to_pass, params, payload,
                                       ~env.gone, env.module)
                          IN  [raised |-> r.raised, exc |-> r.exc,
                               res |-> r.res, calls |-> r.calls,
                               fs |-> Fs(probed \o <<file_path>>, r.loaded)]

----------------------------------------------------------------------------
(* Inputs: nodes, pipelines, task invocations *)

Node(id, logic, params) ==
    [id |-> StrV(id), logic |-> StrV(logic), params |-> params]

PrintCode == StrV("print(5)")

n1 == Node("n1", "do_something", Dict([foo |-> StrV("bar")]))
n2 == ("type" :> StrV("custom")) @@
      Node("n2", "custom", Dict([_type |-> StrV("custom"), code |-> PrintCode]))
n3 == ("NO PASS THROUGH" :> True) @@
      Node("n3", "do_something", Dict([extra |-> StrV("value")]))
n4 == Node("n4", "custom", EmptyDict)
n5 == ("no_pass_through" :> True) @@
      Node("n5", "custom", Dict([code |-> PrintCode]))
n6 == ("tags" :> ListV(<<StrV("NO PASS THROUGH")>>)) @@
      Node("n6", "inline", Dict([_type |-> StrV("custom"),
                                 args |-> ListV(<<PrintCode>>)]))
n7 == Node("n7", "nope", Dict([code |-> StrV(" ")]))
n8 == ("type" :> StrV("custom")) @@
      Node("n8", "do_something", Dict([code |-> StrV(" ")]))
n9 == Node("n9", "../secret", EmptyDict)

\* a message of the task queue: the arguments of execute_pipeline.apply_async
Message(nodes, payload, trigger_meta, countdown) ==
    [nodes |-> nodes, payload |-> payload, trigger_meta |-> trigger_meta,
     countdown |-> countdown]

----------------------------------------------------------------------------
(* tasks.py: pipeline runner *)

Idle ==
    [pc |-> "idle", msg |-> Message(<<>>, None, None, 0), nodes |-> <<>>,
     payload |-> EmptyDict, trigger_meta |-> <<>>, idx |-> 0,
     prev_output |-> None, results |-> <<>>, dispatched |-> <<>>,
     calls |-> <<>>, fs |-> <<>>, state |-> "PENDING", ret |-> None]

\* next_prev that takes stdout from any outcome, Ok or not
next_prev_any_stdout(res) ==
    IF IsDict(res)
    THEN IF Get(res.d, "ok") = True /\ "result" \in DOMAIN res.d
         THEN res.d.result
         ELSE IF "stdout" \in DOMAIN res.d
         THEN res.d.stdout
         ELSE res
    ELSE res

\* the next previous-output derived from a node's outcome
next_prev(res) ==
    IF IsDict(res)
    THEN IF Get(res.d, "ok") = True /\ "result" \in DOMAIN res.d
         THEN res.d.result
         ELSE IF Get(res.d, "ok") = True /\ "stdout" \in DOMAIN res.d
         THEN res.d.stdout
         ELSE res
    ELSE res

\* a start of the run that leaves the previous output empty
StartRun_no_prev(m) ==
    /\ run.pc \in {"idle", "done", "failed", "aborted"}
    /\ nRuns < MaxRuns
    /\ BagIn(m, queue)
    /\ queue' = queue (-) SetToBag({m})
    /\ nRuns' = nRuns + 1
    /\ run' = [Idle EXCEPT
                 !.pc = "loop", !.msg = m, !.nodes = m.nodes,
                 !.payload = IF m.payload # None THEN m.payload
                             ELSE EmptyDict,
                 !.trigger_meta = IF Truthy(m.trigger_meta)
                                  THEN m.trigger_meta.d ELSE <<>>,
                 !.idx = 1,
                 !.prev_output = None,
                 !.state = "STARTED"]
    /\ UNCHANGED <<store, lastReq, resp, nCalls, sent, finished>>

\* a worker takes an invocation off the queue and enters the node loop
StartRun(m) ==
    /\ run.pc \in {"idle", "done", "failed", "aborted"}
    /\ nRuns < MaxRuns
    /\ BagIn(m, queue)
    /\ queue' = queue (-) SetToBag({m})
    /\ nRuns' = nRuns + 1
    /\ run' = [Idle EXCEPT
                 !.pc = "loop", !.msg = m, !.nodes = m.nodes,
                 !.payload = IF m.payload # None THEN m.payload
                             ELSE EmptyDict,
                 !.trigger_meta = IF Truthy(m.trigger_meta)
                                  THEN m.trigger_meta.d ELSE <<>>,
                 !.idx = 1,
                 !.prev_output = IF m.payload # None THEN m.payload
                                 ELSE EmptyDict,
                 !.state = "STARTED"]
    /\ UNCHANGED <<store, lastReq, resp, nCalls, sent, finished>>

\* loop_body that leaves the loop at the first outcome that is not Ok
loop_body_halt(r, env) ==
    LET node == r.nodes[r.idx]
        logic_name == IF Get(node, "type") = StrV("custom")
                      THEN StrV("custom") ELSE Get(node, "logic")
        p == GetOr(node, "params", EmptyDict)
        out == run_logic(logic_name, IF Truthy(p) THEN p ELSE EmptyDict,
                         r.payload, _coerce_prev(r.prev_output), node, env)
    IN  IF out.raised
        THEN [r EXCEPT !.pc = IF IsException(out.exc) THEN "failed"
                              ELSE "aborted",
                       !.state = IF IsException(out.exc) THEN "FAILURE"
                                 ELSE @,
                       !.dispatched = Append(@, r.idx),
                       !.calls = Append(@, out.calls),
                       !.fs = Append(@, out.fs)]
        ELSE [r EXCEPT
                !.dispatched = Append(@, r.idx),
                !.fs = Append(@, out.fs),
                !.results = Append(@, [node_id |-> Get(node, "id"),
                                       logic |-> logic_name,
                                       result |-> out.res]),
                !.calls = Append(@, out.calls),
                !.prev_output = next_prev(out.res),
                !.idx = IF IsDict(out.res) /\ Get(out.res.d, "ok") = False
                        THEN Len(r.nodes) + 1 ELSE @ + 1]

\* one iteration of the node loop; an Exception escaping run_logic ends the
\* run in the except clause (state FAILURE, re-raised); any other exception
\* passes the except clause and leaves the task as it is
loop_body(r, env) ==
    LET node == r.nodes[r.idx]
        node_id == Get(node, "id")
        logic_name == IF Get(node, "type") = StrV("custom")
                      THEN StrV("custom") ELSE Get(node, "logic")
        p == GetOr(node, "params", EmptyDict)
        params == IF Truthy(p) THEN p ELSE EmptyDict
        coerced_prev == _coerce_prev(r.prev_output)
        out == run_logic(logic_name, params, r.payload, coerced_prev, node,
                         env)
    IN  IF out.raised
        THEN [r EXCEPT !.pc = IF IsException(out.exc) THEN "failed"
                              ELSE "aborted",
                       !.state = IF IsException(out.exc) THEN "FAILURE"
                                 ELSE @,
                       !.dispatched = Append(@, r.idx),
                       !.calls = Append(@, out.calls),
                       !.fs = Append(@, out.fs)]
        ELSE [r EXCEPT
                !.dispatched = Append(@, r.idx),
                !.fs = Append(@, out.fs),
                !.results = Append(@, [node_id |-> node_id,
                                       logic |-> logic_name,
                                       result |-> out.res]),
                !.calls = Append(@, out.calls),
                !.prev_output = next_prev(out.res),
                !.idx = @ + 1]

RunNode(env) ==
    /\ run.pc = "loop"
    /\ run.idx <= Len(run.nodes)
    /\ run' = loop_body(run, env)
    /\ UNCHANGED <<store, queue, lastReq, resp, nCalls, nRuns, sent, finished>>

\* reschedule that always waits the default minute
reschedule_default(r) ==
    IF /\ Get(r.trigger_meta, "trigger_type") = StrV("time")
       /\ Get(r.trigger_meta, "mode") = StrV("interval")
    THEN {Message(r.nodes, r.payload, Dict(r.trigger_meta), 60)}
    ELSE {}

\* the recurring re-enqueue of a finished interval run, if any
reschedule(r) ==
    IF /\ Get(r.trigger_meta, "trigger_type") = StrV("time")
       /\ Get(r.trigger_meta, "mode") = StrV("interval")
    THEN {Message(r.nodes, r.payload, Dict(r.trigger_meta),
                  GetOr(r.trigger_meta, "interval_seconds", IntV(60)).i)}
    ELSE {}

\* a reschedule that also follows a failed run, as from a finally clause
FinishRun_after_failure ==
    /\ \/ run.pc = "loop" /\ run.idx > Len(run.nodes)
       \/ run.pc = "failed"
    /\ queue' = queue (+) SetToBag(reschedule(run))
    /\ sent' = sent (+) SetToBag({[src |-> "run", msg |-> m] :
                                     m \in reschedule(run)})
    /\ finished' = finished (+) SetToBag({run.msg})
    /\ run' = [run EXCEPT !.pc = "done", !.state = "SUCCESS",
                          !.ret = Dict([status |-> StrV("success"),
                                        results |-> ListV(run.results)])]
    /\ UNCHANGED <<store, lastReq, resp, nCalls, nRuns>>

\* after the last node: re-arm a recurring trigger and return
FinishRun ==
    /\ run.pc = "loop"
    /\ run.idx > Len(run.nodes)
    /\ queue' = queue (+) SetToBag(reschedule(run))
    /\ sent' = sent (+) SetToBag({[src |-> "run", msg |-> m] :
                                     m \in reschedule(run)})
    /\ finished' = finished (+) SetToBag({run.msg})
    /\ run' = [run EXCEPT !.pc = "done", !.state = "SUCCESS",
                          !.ret = Dict([status |-> StrV("success"),
                                        results |-> ListV(run.results)])]
    /\ UNCHANGED <<store, lastReq, resp, nCalls, nRuns>>

----------------------------------------------------------------------------
(* main.py: trigger scheduler *)

FlowIds == {"f1", "f2"}
Tokens == {"k1", "k2"}
TicksPerSecond == 2     \* the clock and `at` are counted in half seconds

\* Node(BaseModel).dict(): the declared fields id, logic and params only
Node_dict(n) ==
    [id |-> n.id, logic |-> n.logic, params |-> GetOr(n, "params", EmptyDict)]

nodes_dict(nodes) == [i \in 1..Len(nodes) |-> Node_dict(nodes[i])]

\* json.dumps / json.loads of the value kept under a redis key
JsonDumps(v) == [json |-> v]

\* a store that holds one webhook at a time
redis_save_webhook_single(st, token, payload) ==
    [k \in {token} |-> JsonDumps(payload)]

redis_save_webhook(st, token, payload) ==
    [k \in DOMAIN st \cup {token} |->
        IF k = token THEN JsonDumps(payload) ELSE st[k]]

redis_get_webhook(st, token) ==
    IF token \in DOMAIN st THEN st[token].json ELSE None

\* The node lists a client submits
SubmittedNodeLists == { <<n1, n3>>, <<n2, n3>> }

\* the one-shot instant lies a second and a tick after the first clock reading
Schedules ==
    { None,
      [mode |-> "once", at |-> None, interval_seconds |-> None],
      [mode |-> "once", at |-> IntV(TicksPerSecond + 1),
       interval_seconds |-> IntV(1)],
      [mode |-> "interval", at |-> None, interval_seconds |-> None],
      [mode |-> "interval", at |-> None, interval_seconds |-> IntV(0)],
      [mode |-> "interval", at |-> None, interval_seconds |-> IntV(0 - 1)],
      [mode |-> "interval", at |-> IntV(2), interval_seconds |-> IntV(2)] }

Registrations ==
    [flow_id : FlowIds, trigger : [type : {"webhook"}, schedule : {None}],
     nodes : SubmittedNodeLists]
    \cup
    [flow_id : {"f1"}, trigger : [type : {"time"}, schedule : Schedules],
     nodes : {<<n2, n3>>}]

\* register_trigger reads the clock only for a one-shot schedule with `at`
reads_clock(reg) ==
    /\ reg.trigger.type = "time"
    /\ reg.trigger.schedule # None
    /\ reg.trigger.schedule.mode = "once"
    /\ reg.trigger.schedule.at # None

\* a one-shot whose delay (at - now) is negative is refused
once_rejected(delay) == delay < 0

\* once_countdown that keeps the fraction of a second
once_countdown_raw(delay) == delay

\* int(delay): the whole seconds of the delay
once_countdown(delay) == delay \div TicksPerSecond

\* interval_rejected that lets a negative interval through
interval_rejected_falsy(sched) == ~Truthy(sched.interval_seconds)

\* a missing, zero or negative interval is refused
interval_rejected(sched) ==
    ~Truthy(sched.interval_seconds) \/ sched.interval_seconds.i <= 0

Enqueue(src, m) ==
    /\ queue' = queue (+) SetToBag({m})
    /\ sent' = sent (+) SetToBag({[src |-> src, msg |-> m]})

Reject(op, code, detail) ==
    /\ resp' = [op |-> op, status |-> code, detail |-> detail, token |-> ""]
    /\ UNCHANGED <<store, queue, sent>>

\* POST /triggers; now is the clock reading, token the uuid minted
register_trigger(reg, now, token) ==
    /\ nCalls < MaxCalls
    /\ nCalls' = nCalls + 1
    /\ reg.trigger.type = "webhook" => token \notin DOMAIN store
    /\ reads_clock(reg) \/ now = 0
    /\ lastReq' = [op |-> "register", reg |-> reg, now |-> now]
    /\ UNCHANGED <<run, nRuns, finished>>
    /\ IF reg.trigger.type = "webhook"
       THEN /\ store' = redis_save_webhook(store, token,
                           [trigger_id |-> "tid", flow_id |-> reg.flow_id,
                            nodes |-> nodes_dict(reg.nodes)])
            /\ resp' = [op |-> "register", status |-> 200,
                        detail |-> "webhook", token |-> token]
            /\ UNCHANGED <<queue, sent>>
       ELSE LET sched == reg.trigger.schedule
                nodes_to_pass == nodes_dict(reg.nodes)
            IN  IF sched = None
                THEN Reject("register", 400, "time trigger requires 'schedule'")
                ELSE IF sched.mode = "once"
                THEN IF sched.at = None
                     THEN Reject("register", 400, "'at' datetime required for mode 'once'")
                     ELSE LET delay == sched.at.i - now
                          IN  IF once_rejected(delay)
                              THEN Reject("register", 400, "'at' must be in the future")
                              ELSE /\ Enqueue("register",
                                        Message(nodes_to_pass, EmptyDict,
                                          Dict([trigger_type |-> StrV("time"),
                                                mode |-> StrV("once"),
                                                flow_id |-> StrV(reg.flow_id)]),
                                          once_countdown(delay)))
                                   /\ resp' = [op |-> "register",
                                               status |-> 200,
                                               detail |-> "once", token |-> ""]
                                   /\ UNCHANGED store
                ELSE IF interval_rejected(sched)
                     THEN Reject("register", 400, "'interval_seconds' must be a positive integer")
                     ELSE /\ Enqueue("register",
                               Message(nodes_to_pass, EmptyDict,
                                 Dict([trigger_type |-> StrV("time"),
                                       mode |-> StrV("interval"),
                                       interval_seconds |-> sched.interval_seconds,
                                       flow_id |-> StrV(reg.flow_id)]),
                                 sched.interval_seconds.i))
                          /\ resp' = [op |-> "register", status |-> 200,
                                      detail |-> "interval", token |-> ""]
                          /\ UNCHANGED store

\* The request bodies delivered to a webhook: JSON values, or bytes that do
\* not parse
Bodies ==
    { [kind |-> "invalid", v |-> None],
      [kind |-> "json", v |-> Dict([x |-> IntV(1)])],
      [kind |-> "json", v |-> Dict([nodes |-> ListV(<<>>)])],
      [kind |-> "json", v |-> Dict([x |-> IntV(1), trigger |-> StrV("time")])],
      [kind |-> "json", v |-> Dict([flow_id |-> StrV("f2")])],
      [kind |-> "json", v |-> Dict([trigger_type |-> StrV("time"),
                                    mode |-> StrV("interval"),
                                    interval_seconds |-> IntV(1)])],
      [kind |-> "json", v |-> ListV(<<StrV("nodes")>>)] }

\* forbidden_keys without the flow identifier
forbidden_keys_short == {"nodes", "trigger"}

forbidden_keys == {"nodes", "trigger", "flow_id"}

\* webhook_payload that hands on any body
webhook_payload_any(body) == body

\* the payload handed to the run: the body if it is an object, else {}
webhook_payload(body) == IF IsDict(body) THEN body ELSE EmptyDict

\* POST /webhook/{flow_id}/{token}
webhook_receiver(flow_id, token, request) ==
    /\ nCalls < MaxCalls
    /\ nCalls' = nCalls + 1
    /\ lastReq' = [op |-> "webhook", flow_id |-> flow_id, token |-> token,
                   request |-> request]
    /\ UNCHANGED <<run, nRuns, finished>>
    /\ LET meta == redis_get_webhook(store, token)
           body == IF request.kind = "json" THEN request.v ELSE EmptyDict
           payload == webhook_payload(body)
       IN  IF meta = None
           THEN Reject("webhook", 404, "Webhook not found")
           ELSE IF meta.flow_id # flow_id
           THEN Reject("webhook", 400, "flow_id mismatch")
           ELSE IF IsDict(body) /\ forbidden_keys \cap DOMAIN body.d # {}
           THEN Reject("webhook", 400, "Webhook POST must not include 'nodes', 'trigger', or 'flow_id'")
           ELSE /\ Enqueue("webhook",
                     Message(meta.nodes, payload,
                             Dict([trigger_type |-> StrV("webhook"),
                                   flow_id |-> StrV(meta.flow_id)]), 0))
                /\ resp' = [op |-> "webhook", status |-> 200,
                            detail |-> "accepted", token |-> ""]
                /\ UNCHANGED store

----------------------------------------------------------------------------
(* The system: API process, task queue and one worker *)

Init ==
    /\ store = <<>>
    /\ queue = EmptyBag
    /\ lastReq = [op |-> "none"]
    /\ resp = [op |-> "none", status |-> 0, detail |-> "", token |-> ""]
    /\ nCalls = 0
    /\ run = Idle
    /\ nRuns = 0
    /\ sent = EmptyBag
    /\ finished = EmptyBag

Register == \E reg \in Registrations, now \in 0..MaxNow, token \in Tokens :
                register_trigger(reg, now, token)

Deliver == \E flow_id \in FlowIds, token \in Tokens, request \in Bodies :
               webhook_receiver(flow_id, token, request)

Start == \E m \in DOMAIN queue : StartRun(m)

Dispatch == \E env \in Envs : RunNode(env)

DispatchSys == \E env \in SysEnvs : RunNode(env)

Next == Register \/ Deliver \/ Start \/ DispatchSys \/ FinishRun

Spec == Init /\ [][Next]_vars

----------------------------------------------------------------------------
(* One worker alone: execute_pipeline on an invocation any producer queued *)

RunNodeLists ==
    { <<>>, <<n1, n3>>, <<n2, n3>>, <<n1, n5>>, <<n2, n6>>, <<n4, n1>>,
      <<n7, n8>>, <<n9, n1>>, <<n5, n1>> }

WebhookMeta == Dict([trigger_type |-> StrV("webhook"), flow_id |-> StrV("f1")])

RunMetas ==
    { None, EmptyDict, WebhookMeta,
      Dict([trigger_type |-> StrV("time"), mode |-> StrV("once"),
            flow_id |-> StrV("f1")]),
      Dict([trigger_type |-> StrV("time"), mode |-> StrV("interval"),
            interval_seconds |-> IntV(2), flow_id |-> StrV("f1")]),
      Dict([trigger_type |-> StrV("time"), mode |-> StrV("interval")]) }

RunMessages ==
    { Message(nodes, payload, WebhookMeta, 0) :
        nodes \in RunNodeLists,
        payload \in {EmptyDict, Dict([x |-> IntV(1)]), Dict([x |-> StrV("\"5\"")])} }
    \cup
    { Message(<<n4, n2, n1>>, EmptyDict, WebhookMeta, 0) }
    \cup
    { Message(<<n1>>, payload, meta, 0) :
        payload \in {None, EmptyDict}, meta \in RunMetas }

InitRun ==
    /\ store = <<>>
    /\ \E m \in RunMessages : queue = SetToBag({m})
    /\ lastReq = [op |-> "none"]
    /\ resp = [op |-> "none", status |-> 0, detail |-> "", token |-> ""]
    /\ nCalls = 0
    /\ run = Idle
    /\ nRuns = 0
    /\ sent = EmptyBag
    /\ finished = EmptyBag

NextRun == Start \/ Dispatch \/ FinishRun

SpecRun == InitRun /\ [][NextRun]_vars

----------------------------------------------------------------------------
(* One worker on a recurring invocation, with a task queue that delivers at
   least once *)

\* the invocations register_trigger enqueues for an interval trigger
IntervalMessages ==
    { Message(nodes_dict(nodes), EmptyDict,
              Dict([trigger_type |-> StrV("time"), mode |-> StrV("interval"),
                    interval_seconds |-> IntV(2), flow_id |-> StrV("f1")]),
              2) : nodes \in SubmittedNodeLists }

InitQueue ==
    /\ store = <<>>
    /\ \E m \in IntervalMessages : queue = SetToBag({m})
    /\ lastReq = [op |-> "none"]
    /\ resp = [op |-> "none", status |-> 0, detail |-> "", token |-> ""]
    /\ nCalls = 0
    /\ run = Idle
    /\ nRuns = 0
    /\ sent = EmptyBag
    /\ finished = EmptyBag

\* the queue delivers the invocation the worker has just processed once
\* more: execute_pipeline starts again with the same arguments
Redeliver ==
    /\ run.pc \in {"done", "failed", "aborted"}
    /\ nRuns < MaxRuns
    /\ nRuns' = nRuns + 1
    /\ run' = [Idle EXCEPT
                 !.pc = "loop", !.msg = run.msg, !.nodes = run.msg.nodes,
                 !.payload = IF run.msg.payload # None THEN run.msg.payload
                             ELSE EmptyDict,
                 !.trigger_meta = IF Truthy(run.msg.trigger_meta)
                                  THEN run.msg.trigger_meta.d ELSE <<>>,
                 !.idx = 1,
                 !.prev_output = IF run.msg.payload # None
                                 THEN run.msg.payload ELSE EmptyDict,
                 !.state = "STARTED"]
    /\ UNCHANGED <<store, queue, lastReq, resp, nCalls, sent, finished>>

NextQueue == Start \/ DispatchSys \/ FinishRun \/ Redeliver

SpecQueue == InitQueue /\ [][NextQueue]_vars

----------------------------------------------------------------------------
(* Properties of the pipeline runner *)

ErrorOf(res) == IF IsDict(res) THEN Get(res.d, "error") ELSE None

\* C1: a node's failure does not halt the pipeline.  Whatever outcomes
\* run_logic returns, a run that ends has dispatched every node exactly once
\* in list order and returns status "success" with one result entry per node,
\* in node order; a run stops early only when a call of run_logic returned
\* nothing at all (an exception escaped it).
C1_FailureDoesNotHalt ==
    /\ run.pc = "loop" =>
          /\ run.dispatched = [i \in 1..(run.idx - 1) |-> i]
          /\ Len(run.results) = run.idx - 1
    /\ run.pc = "done" =>
          /\ Get(run.ret.d, "status") = StrV("success")
          /\ Get(run.ret.d, "results") = ListV(run.results)
          /\ run.dispatched = [i \in 1..Len(run.nodes) |-> i]
          /\ Len(run.results) = Len(run.nodes)
          /\ \A i \in 1..Len(run.nodes) :
                run.results[i].node_id = Get(run.nodes[i], "id")
    /\ run.pc = "failed" => Len(run.results) < Len(run.dispatched)

\* a finished run of three nodes that failed in three different ways
C1_Witness ==
    /\ run.pc = "done"
    /\ Len(run.results) = 3
    /\ ErrorOf(run.results[1].result) =
          StrV("custom node requires params['code'] (string)")
    /\ ErrorOf(run.results[2].result) = StrV("timeout")
    /\ ErrorOf(run.results[3].result) = StrV("exception")

LastResult == run.results[Len(run.results)].result

OkWith(res, key) ==
    IsDict(res) /\ Get(res.d, "ok") = True /\ key \in DOMAIN res.d

\* C2 as claimed: after every node the previous-output is the result field of
\* an Ok outcome, else the stdout field of any outcome that has one (Ok or
\* not), else the whole outcome.
C2_AnyStdoutPrecedence ==
    (run.pc \in {"loop", "done"} /\ Len(run.results) > 0) =>
        LET res == LastResult
        IN  IF OkWith(res, "result") THEN run.prev_output = res.d.result
            ELSE IF IsDict(res) /\ "stdout" \in DOMAIN res.d
            THEN run.prev_output = res.d.stdout
            ELSE run.prev_output = res

\* C2 amended: after every node the previous-output is the result field of an
\* Ok outcome, else the stdout field of an Ok outcome, else the whole outcome
\* (so an outcome that is not Ok is handed on whole, stdout or not).
C2_OkStdoutPrecedence ==
    (run.pc \in {"loop", "done"} /\ Len(run.results) > 0) =>
        LET res == LastResult
        IN  IF OkWith(res, "result") THEN run.prev_output = res.d.result
            ELSE IF OkWith(res, "stdout") THEN run.prev_output = res.d.stdout
            ELSE run.prev_output = res

\* an outcome that is not Ok and carries stdout was handed on whole
C2_Witness ==
    /\ run.pc = "loop"
    /\ Len(run.results) > 0
    /\ IsDict(LastResult)
    /\ Get(LastResult.d, "ok") = False
    /\ Get(LastResult.d, "stdout") = StrV("hello")
    /\ run.prev_output = LastResult

\* the pass-through-disabling flag as the node carries it
Flagged(node) ==
    \/ "NO PASS THROUGH" \in DOMAIN node /\ node["NO PASS THROUGH"] = True
    \/ "no_pass_through" \in DOMAIN node /\ node["no_pass_through"] = True
    \/ /\ "tags" \in DOMAIN node
       /\ IsList(node["tags"])
       /\ StrV("NO PASS THROUGH") \in
             {node["tags"].l[j] : j \in 1..Len(node["tags"].l)}

\* the calls of node i that were handed a prev: the sandbox request, or an
\* entry point declaring three parameters
PrevCalls(i) ==
    {c \in {run.calls[i][j] : j \in 1..Len(run.calls[i])} : Len(c.args) = 3}

\* what node i's predecessor left: the payload for the first node
Incoming(i) ==
    IF i = 1 THEN run.payload
    ELSE LET res == run.results[i - 1].result
         IN  IF OkWith(res, "result") THEN res.d.result
             ELSE IF OkWith(res, "stdout") THEN res.d.stdout
             ELSE res

\* C3: a node carrying the pass-through-disabling flag is handed prev = None
\* whatever its predecessor produced; a node without the flag is handed the
\* value derived from its predecessor's outcome (coerced from JSON text by
\* the runner and again by the dispatcher).
C3_NoPassThrough ==
    \A i \in 1..Len(run.calls) : \A c \in PrevCalls(i) :
        IF Flagged(run.nodes[i])
        THEN c.args[1] = None
        ELSE c.args[1] = _coerce_prev(_coerce_prev(Incoming(i)))

\* a second node flagged by no_pass_through or by a tag was called with None
\* although the first node's outcome left a value
C3_Witness ==
    /\ Len(run.calls) >= 2
    /\ Flagged(run.nodes[2])
    /\ ~("NO PASS THROUGH" \in DOMAIN run.nodes[2])
    /\ Incoming(2) # None
    /\ \E c \in PrevCalls(2) : c.args[1] = None

----------------------------------------------------------------------------
(* Properties of the trigger scheduler *)

SubmittedNodes ==
    UNION {{L[i] : i \in 1..Len(L)} : L \in SubmittedNodeLists}

SubmittedFlagged(id) == \E n \in SubmittedNodes : n.id = id /\ Flagged(n)

\* C4: a pipeline is immutable once registered, flags included.  The node
\* list of every run is a node list as it was submitted, and a node submitted
\* with the pass-through-disabling flag is handed prev = None.
C4_RegisteredNodesKeepFlags ==
    run.pc # "idle" =>
        /\ run.nodes \in SubmittedNodeLists
        /\ \A i \in 1..Len(run.calls) : \A c \in PrevCalls(i) :
              SubmittedFlagged(run.nodes[i].id) => c.args[1] = None

IsIntervalMeta(meta) ==
    /\ Get(meta, "trigger_type") = StrV("time")
    /\ Get(meta, "mode") = StrV("interval")

IsIntervalMsg(m) == IsDict(m.trigger_meta) /\ IsIntervalMeta(m.trigger_meta.d)

SentBy(src, m) == CopiesIn([src |-> src, msg |-> m], sent)

Enqueues(m) == SentBy("register", m) + SentBy("webhook", m) + SentBy("run", m)

KnownMessages == {e.msg : e \in DOMAIN sent} \cup DOMAIN finished

\* C5: for a recurring interval invocation (node list, trigger metadata,
\* countdown = interval_seconds) the enqueues made so far are the ones made by
\* register_trigger plus one per completed run: N + 1 after N completed runs
\* of one registration, each with the same arguments and the same delay.
C5_IntervalEnqueues ==
    \A m \in KnownMessages :
        IsIntervalMsg(m) =>
            /\ Enqueues(m) = SentBy("register", m) + CopiesIn(m, finished)
            /\ SentBy("register", m) >= 1
            /\ m.countdown = Get(m.trigger_meta.d, "interval_seconds").i

\* one registration, two completed runs, three enqueues
C5_Witness ==
    \E m \in DOMAIN finished :
        /\ IsIntervalMsg(m)
        /\ SentBy("register", m) = 1
        /\ CopiesIn(m, finished) = 2
        /\ Enqueues(m) = 3

RegisterStep == nCalls' # nCalls /\ lastReq'.op = "register"

WebhookStep == nCalls' # nCalls /\ lastReq'.op = "webhook"

TimeReg(reg) == reg.trigger.type = "time"

OnceWithAt(reg) ==
    /\ TimeReg(reg)
    /\ reg.trigger.schedule # None
    /\ reg.trigger.schedule.mode = "once"
    /\ reg.trigger.schedule.at # None

NothingCreated == UNCHANGED <<queue, sent, store>>

\* C6: a one-shot registration is rejected, and enqueues nothing, whenever
\* at <= now; it is accepted only when at > now.
C6_RejectsNotStrictlyFuture ==
    [][(RegisterStep /\ OnceWithAt(lastReq'.reg)) =>
          IF lastReq'.reg.trigger.schedule.at.i <= lastReq'.now
          THEN resp'.status = 400 /\ NothingCreated
          ELSE resp'.status = 200]_vars

\* the registrations the scheduler has to refuse
MustReject(reg, now) ==
    /\ TimeReg(reg)
    /\ LET sched == reg.trigger.schedule
       IN  \/ sched = None
           \/ /\ sched # None
              /\ sched.mode = "once"
              /\ \/ sched.at = None
                 \/ sched.at # None /\ sched.at.i < now
           \/ /\ sched # None
              /\ sched.mode = "interval"
              /\ \/ sched.interval_seconds = None
                 \/ /\ sched.interval_seconds # None
                    /\ sched.interval_seconds.i <= 0

\* C7: a rejected registration creates nothing.  A time trigger without
\* schedule, a one-shot without `at` or with `at` in the past, an interval
\* that is missing, zero or negative are all rejected, and a rejected
\* registration enqueues no run and writes no token.
C7_RejectedCreatesNothing ==
    [][RegisterStep =>
          /\ MustReject(lastReq'.reg, lastReq'.now) => resp'.status = 400
          /\ resp'.status = 400 => NothingCreated]_vars

\* a negative interval was refused while a registration already existed
C7_Witness ==
    /\ lastReq.op = "register"
    /\ TimeReg(lastReq.reg)
    /\ lastReq.reg.trigger.schedule # None
    /\ lastReq.reg.trigger.schedule.interval_seconds = IntV(0 - 1)
    /\ resp.status = 400
    /\ BagCardinality(sent) + Cardinality(DOMAIN store) = 1

\* C8: an accepted time registration enqueues exactly one invocation, with
\* countdown the whole seconds of at - now for a one-shot and
\* interval_seconds for an interval; a run that is not an interval run
\* enqueues nothing.
C8_OneEnqueuePerTimeRegistration ==
    [][/\ (RegisterStep /\ TimeReg(lastReq'.reg) /\ resp'.status = 200) =>
            LET sched == lastReq'.reg.trigger.schedule
            IN  \E m \in DOMAIN queue' :
                  /\ queue' = queue (+) SetToBag({m})
                  /\ sent' = sent (+) SetToBag({[src |-> "register",
                                                 msg |-> m]})
                  /\ m.countdown =
                        IF sched.mode = "once"
                        THEN (sched.at.i - lastReq'.now) \div TicksPerSecond
                        ELSE sched.interval_seconds.i
       /\ (nCalls' = nCalls /\ run.pc = "loop"
             /\ ~IsIntervalMeta(run.trigger_meta)) =>
            UNCHANGED <<queue, sent>>]_vars

\* a one-shot registered at least a second ahead has run and left nothing
\* behind
C8_Witness ==
    /\ run.pc = "done"
    /\ Get(run.trigger_meta, "mode") = StrV("once")
    /\ run.msg.countdown >= 1
    /\ queue = EmptyBag
    /\ BagCardinality(sent) = 1

\* C9: a delivery is rejected and enqueues nothing when the token is unknown
\* (not found), when the flow identifier of the path differs from the stored
\* one, or when the body has a top-level key nodes, trigger or flow_id; only
\* otherwise a run is enqueued.
C9_DeliveryRejections ==
    [][WebhookStep =>
          LET r == lastReq'
              known == r.token \in DOMAIN store
              mismatch == store[r.token].json.flow_id # r.flow_id
              respecifies ==
                  /\ r.request.kind = "json"
                  /\ IsDict(r.request.v)
                  /\ DOMAIN r.request.v.d \cap {"nodes", "trigger", "flow_id"} # {}
          IN  IF ~known
              THEN resp'.status = 404 /\ NothingCreated
              ELSE IF mismatch \/ respecifies
              THEN resp'.status = 400 /\ NothingCreated
              ELSE /\ resp'.status = 200
                   /\ BagCardinality(queue') = BagCardinality(queue) + 1]_vars

\* a delivery to a known token and the right flow was refused for naming
\* flow_id in its body
C9_Witness ==
    /\ lastReq.op = "webhook"
    /\ lastReq.token \in DOMAIN store
    /\ store[lastReq.token].json.flow_id = lastReq.flow_id
    /\ lastReq.request.v = Dict([flow_id |-> StrV("f2")])
    /\ resp.status = 400
    /\ queue = EmptyBag

\* the one invocation an accepted delivery enqueues
Delivered(m, payload) ==
    /\ queue' = queue (+) SetToBag({m})
    /\ sent' = sent (+) SetToBag({[src |-> "webhook", msg |-> m]})
    /\ store' = store
    /\ m.nodes = store[lastReq'.token].json.nodes
    /\ m.payload = payload
    /\ m.trigger_meta = Dict([trigger_type |-> StrV("webhook"),
                              flow_id |-> StrV(store[lastReq'.token].json.flow_id)])
    /\ ~IsIntervalMsg(m)

\* C10 as claimed: an accepted delivery enqueues exactly one invocation, with
\* the node list stored for the token, trigger metadata of kind webhook with
\* the stored flow identifier, and the delivered body as payload (whatever
\* JSON value that body is; nothing is asked of a body that is not JSON).
C10_PayloadIsBody ==
    [][(WebhookStep /\ resp'.status = 200
          /\ lastReq'.request.kind = "json") =>
          \E m \in DOMAIN queue' : Delivered(m, lastReq'.request.v)]_vars

\* C10 amended: as above, but the payload is the delivered body only when
\* that body is a JSON object; for any other body (not an object, or not
\* JSON at all) the payload is the empty object.
C10_PayloadIsObjectBody ==
    [][(WebhookStep /\ resp'.status = 200) =>
          \E m \in DOMAIN queue' :
              Delivered(m, IF lastReq'.request.kind = "json"
                              /\ IsDict(lastReq'.request.v)
                           THEN lastReq'.request.v ELSE EmptyDict)]_vars

\* a body naming trigger_type, mode and interval_seconds was accepted and ran
\* as a webhook run that enqueued nothing
C10_Witness ==
    /\ run.pc = "done"
    /\ Get(run.payload.d, "mode") = StrV("interval")
    /\ Get(run.trigger_meta, "trigger_type") = StrV("webhook")
    /\ queue = EmptyBag
    /\ BagCardinality(sent) = 1

----------------------------------------------------------------------------
(* Token store *)

\* the definition a webhook registration stores
StoredDefinition(reg) ==
    JsonDumps([trigger_id |-> "tid", flow_id |-> reg.flow_id,
               nodes |-> nodes_dict(reg.nodes)])

----------------------------------------------------------------------------
(* Inline nodes and the sandbox *)

\* the node is run as inline code
InlineNode(node) ==
    is_custom(IF Get(node, "type") = StrV("custom") THEN StrV("custom")
              ELSE Get(node, "logic"),
              GetOr(node, "params", EmptyDict))

\* the code of the node is missing, the empty string, blank or not a string
EmptyCode(node) ==
    LET c == code_of(GetOr(node, "params", EmptyDict))
    IN  ~IsStr(c) \/ Blank(c.s)

\* the sandbox calls made for the i-th node of the run
SandboxCalls(i) ==
    { run.calls[i][j] : j \in { j \in 1..Len(run.calls[i]) :
                                  run.calls[i][j].to = "sandbox" } }

\* every sandbox call of the run that arrived at the service
Execs ==
    { c.exec : c \in { c \in UNION { SandboxCalls(i) :
                                       i \in 1..Len(run.calls) } :
                         c.exec.status # 0 } }

\* C12: every inline node whose code is missing, empty, blank or not a string
\* has a recorded outcome with ok = false, no temporary file was created and
\* no child process started for it, and the run goes on to the next node.
C12_EmptyCodeIsErr ==
    \A i \in 1..Len(run.results) :
        (InlineNode(run.nodes[i]) /\ EmptyCode(run.nodes[i])) =>
            /\ IsDict(run.results[i].result)
            /\ Get(run.results[i].result.d, "ok") = False
            /\ \A c \in SandboxCalls(i) :
                  c.exec.spawned = 0 /\ ~c.exec.tmp_created
            /\ run.pc = "loop" => run.idx > i
            /\ (run.pc # "loop" /\ i < Len(run.nodes)) =>
                  Len(run.dispatched) > i

\* the child of the call went past the CPU-time bound or the wall-clock bound
Exceeded(e) == e.proc.kind \in {"cpu", "timeout"} /\ e.spawned > 0

\* C13: every sandbox call whose child goes past the CPU-time bound or the
\* wall-clock bound ends with the child terminated and a response with
\* ok = false, error = "timeout" and the partial stdout and stderr captured,
\* on the path that applies the process limits and on the fallback path.
C13_ExceedingIsTimeout ==
    \A e \in Execs :
        Exceeded(e) =>
            /\ e.child = "killed"
            /\ Get(e.body.d, "ok") = False
            /\ Get(e.body.d, "error") = StrV("timeout")
            /\ {"stdout", "stderr"} \subseteq DOMAIN e.body.d

C15_OkIffExitZero ==
    \A e \in Execs :
        /\ Get(e.body.d, "ok") = True <=>
              (e.child = "exited" /\ e.proc.returncode = 0)
        /\ e.child = "exited" =>
              /\ Get(e.body.d, "ok") = Bool(e.proc.returncode = 0)
              /\ Get(e.body.d, "stdout") =
                    IF JsonParses(e.proc.stdout.s)
                    THEN JsonLoads(e.proc.stdout.s) ELSE e.proc.stdout

----------------------------------------------------------------------------
(* Resolver and handler loader *)

\* the mapping file was read and is absent, unreadable, not a JSON object,
\* or an object with a value that is not a string
BadMapping(file) ==
    /\ file.kind # "unread"
    /\ \/ file.kind # "json"
       \/ ~IsDict(file.v)
       \/ \E k \in DOMAIN file.v.d : ~IsStr(file.v.d[k])

\* the i-th node was dispatched and an Exception escaped run_logic
Escaped(i) == i > Len(run.results) /\ run.pc = "failed"

\* the run went on after its i-th node
WentOn(i) ==
    /\ i <= Len(run.results)
    /\ run.pc = "loop" => run.idx > i
    /\ (run.pc # "loop" /\ i < Len(run.nodes)) => Len(run.dispatched) > i

\* C16: when the mapping file read for a node is absent, unreadable, not a
\* JSON object, or an object with a value that is not a string, resolution
\* goes as with an empty mapping (the first path looked at is the fallback
\* <logic_name>.py) and no exception escapes run_logic to fail the run.
C16_BadMappingDegrades ==
    \A i \in 1..Len(run.fs) :
        BadMapping(run.fs[i].mapping) =>
            /\ ~Escaped(i)
            /\ run.fs[i].probed # <<>>
            /\ run.fs[i].probed[1] = Get(run.nodes[i], "logic").s \o ".py"

\* the names a node asks for: its logic name as a file, and the location
\* the mapping gives for it
RequestedNames(i) ==
    LET logic == Get(run.nodes[i], "logic").s
        mapping == load_mapping(run.fs[i].mapping)
    IN  {logic \o ".py"} \cup
        (IF logic \in DOMAIN mapping /\ IsStr(mapping[logic])
         THEN {mapping[logic].s} ELSE {})

\* C17: every path run_logic probes for existence or loads is the basename
\* of a requested name, directly inside the logic directory, for every logic
\* name and mapping content, those with directory separators or ".." too.
C17_NoTraversal ==
    \A i \in 1..Len(run.fs) :
        \A p \in { run.fs[i].probed[j] : j \in 1..Len(run.fs[i].probed) }
                 \cup
                 { run.fs[i].loaded[j] : j \in 1..Len(run.fs[i].loaded) } :
            /\ Basename(p) = p
            /\ p \in { Basename(n) : n \in RequestedNames(i) }

\* the parameters of the i-th node as the runner passes them
NodeParams(i) ==
    LET p == GetOr(run.nodes[i], "params", EmptyDict)
    IN  IF Truthy(p) THEN p ELSE EmptyDict

\* the prev the dispatcher passes on for the i-th node
PrevPassed(i) ==
    IF Flagged(run.nodes[i]) THEN None
    ELSE _coerce_prev(_coerce_prev(Incoming(i)))

\* C18: for every handler module that loaded, the entry point called is run
\* if the module defines it, else handler, else main, and it is called once
\* with (prev, params, payload) when it declares three or more parameters,
\* (params, payload) for two, (payload) for one and () for none; for a
\* module defining none of the three nothing is called and the outcome is an
\* error with ok = false that says so, and the run goes on.
C18_EntryPointAndArity ==
    \A i \in 1..Len(run.calls) :
        LET m == run.fs[i].module
            prev == PrevPassed(i)
            params == NodeParams(i)
        IN  m.load = "ok" =>
              IF m.entries \cap {"run", "handler", "main"} = {}
              THEN /\ run.calls[i] = <<>>
                   /\ WentOn(i)
                   /\ Get(run.results[i].result.d, "ok") = False
                   /\ ErrorOf(run.results[i].result) =
                         StrV("no callable 'run'/'handler'/'main' in module")
              ELSE /\ Len(run.calls[i]) = 1
                   /\ run.calls[i][1].to = "handler"
                   /\ run.calls[i][1].fn =
                         (CASE "run" \in m.entries -> "run"
                            [] "run" \notin m.entries
                               /\ "handler" \in m.entries -> "handler"
                            [] OTHER -> "main")
                   /\ run.calls[i][1].args =
                         (CASE m.pcount >= 3 -> <<prev, params, run.payload>>
                            [] m.pcount = 2 -> <<params, run.payload>>
                            [] m.pcount = 1 -> <<run.payload>>
                            [] OTHER -> <<>>)

\* a finished run whose first handler file defines no entry point and whose
\* second defines handler and main, with two parameters
C18_Witness ==
    /\ run.pc = "done"
    /\ Len(run.calls) = 2
    /\ run.fs[1].module.load = "ok" /\ run.fs[1].module.entries = {}
    /\ run.fs[2].module.entries = {"handler", "main"}
    /\ run.calls[2][1].fn = "handler"
    /\ Len(run.calls[2][1].args) = 2

\* loading the module or calling its entry point raises
Misbehaves(m) ==
    \/ m.load \in {"error", "exit"}
    \/ m.load = "ok" /\ (m.entries = {} \/ m.body \in {"raise", "exit"})

\* C19: whenever loading a handler file or calling its entry point raises,
\* whatever is raised, the node's outcome is recorded with ok = false, an
\* error message and a traceback, and the run goes on with the next node.
C19_HandlerNeverCrashesRun ==
    \A i \in 1..Len(run.fs) :
        Misbehaves(run.fs[i].module) =>
            /\ WentOn(i)
            /\ Get(run.results[i].result.d, "ok") = False
            /\ {"error", "traceback"} \subseteq DOMAIN run.results[i].result.d

\* C20: a run that an exception took out of the node loop is in state
\* FAILURE and has returned nothing (the exception is re-raised); nothing is
\* put back on the queue for it, and in no run is a node dispatched twice.
C20_FailureRecordedNoRetry ==
    /\ (run.pc # "loop" /\ Len(run.dispatched) > Len(run.results)) =>
          /\ run.pc = "failed"
          /\ run.state = "FAILURE"
          /\ run.ret = None
          /\ queue = EmptyBag
    /\ \A i, j \in 1..Len(run.dispatched) :
          run.dispatched[i] = run.dispatched[j] => i = j

----------------------------------------------------------------------------
(* Timeouts *)

\* C21: for every sandbox call, whatever settings the worker started with,
\* the transport timeout of the request is strictly larger than the
\* code-execution timeout the worker sends and than the timeout the service
\* applies, and when the service's own wall-clock timeout fires the worker
\* records the service's answer (the transport has not given up before).
C21_TransportOutlastsSandbox ==
    \A i \in 1..Len(run.results) : \A c \in SandboxCalls(i) :
        /\ c.cfg.REQUEST_TIMEOUT > c.cfg.CUSTOM_TIMEOUT
        /\ c.exec.status = 200 => c.cfg.REQUEST_TIMEOUT > c.exec.timeout
        /\ c.exec.how = "timeout" => run.results[i].result = c.exec.body

----------------------------------------------------------------------------
(* Chaining *)

\* the arguments a call of node i must carry, by their number
ChainedArgs(i, n) ==
    CASE n = 3 -> <<PrevPassed(i), NodeParams(i), run.payload>>
      [] n = 2 -> <<NodeParams(i), run.payload>>
      [] n = 1 -> <<run.payload>>
      [] OTHER -> <<>>

\* nodes run one after the other in list order, each after its
\* predecessor's outcome is recorded, each with the payload of the run and
\* its own params
Sequential ==
    /\ run.pc # "idle" =>
          /\ run.nodes = run.msg.nodes
          /\ run.payload = IF run.msg.payload # None THEN run.msg.payload
                           ELSE EmptyDict
    /\ run.dispatched = [i \in 1..Len(run.dispatched) |-> i]
    /\ run.pc = "loop" => Len(run.results) = Len(run.dispatched)
    /\ Len(run.results) \in {Len(run.dispatched), Len(run.dispatched) - 1}
    /\ \A i \in 1..Len(run.results) :
          run.results[i].node_id = Get(run.nodes[i], "id")
    /\ \A i \in 1..Len(run.calls) : \A j \in 1..Len(run.calls[i]) :
          LET c == run.calls[i][j]
          IN  Len(c.args) \in {1, 2} => c.args = ChainedArgs(i, Len(c.args))

\* C22 as claimed: execution is sequential as above, the first node is
\* handed the run's payload as prev, and every later node a prev that
\* depends only on its predecessor's outcome and its own flag.
C22_FirstNodeGetsPayload ==
    /\ Sequential
    /\ \A i \in 1..Len(run.calls) : \A c \in PrevCalls(i) :
          c.args = <<IF i = 1 THEN run.payload ELSE PrevPassed(i),
                     NodeParams(i), run.payload>>

\* C22 amended: execution is sequential as above; the previous output is
\* the run's payload before the first node and afterwards the value derived
\* from the outcome just recorded; every node, the first included, is handed
\* None when it carries the pass-through flag and else that previous output
\* (parsed when it is JSON text).
C22_SequentialOneHop ==
    /\ Sequential
    /\ \A i \in 1..Len(run.calls) : \A c \in PrevCalls(i) :
          c.args = ChainedArgs(i, 3)

\* a finished run with a payload whose first node carries the flag and was
\* handed None, and whose second node was handed what the first produced
C22_Witness ==
    /\ run.pc = "done"
    /\ Len(run.nodes) = 2
    /\ run.payload # EmptyDict
    /\ Flagged(run.nodes[1])
    /\ \E c \in PrevCalls(1) : c.args[1] = None
    /\ \E c \in PrevCalls(2) : c.args[1] = IntV(5)

----------------------------------------------------------------------------
(* Outcomes *)

\* C23: for every inline node whose params have no code field, whatever
\* else they hold, the outcome is the missing-code error with ok = false and
\* the sandbox service is not called.
C23_CodeOnlyFromCodeField ==
    \A i \in 1..Len(run.results) :
        (InlineNode(run.nodes[i]) /\ "code" \notin DOMAIN NodeParams(i).d) =>
            /\ SandboxCalls(i) = {}
            /\ Get(run.results[i].result.d, "ok") = False
            /\ ErrorOf(run.results[i].result) =
                  StrV("custom node requires params['code'] (string)")

\* the node ran successfully: its handler returned, or its code ran to
\* exit with status 0
RanSuccessfully(i) ==
    \/ /\ run.fs[i].module.load = "ok"
       /\ run.fs[i].module.entries # {}
       /\ run.fs[i].module.body \in {"five", "first", "qfive"}
    \/ \E c \in SandboxCalls(i) :
          /\ c.exec.child = "exited" /\ c.exec.proc.returncode = 0
          /\ run.results[i].result = c.exec.body

\* C24: every outcome in the result log is an object with a boolean ok
\* field, whatever the handler loader or the sandbox service answered, and
\* ok is false whenever the node did not run successfully.
C24_OutcomesWellFormed ==
    \A i \in 1..Len(run.results) :
        LET res == run.results[i].result
        IN  /\ IsDict(res)
            /\ "ok" \in DOMAIN res.d
            /\ res.d.ok \in {True, False}
            /\ ~RanSuccessfully(i) => res.d.ok = False

----------------------------------------------------------------------------
(* Recurring runs *)

\* C25: when the queue delivers an invocation of an interval trigger more
\* than once, the pending enqueued runs of that registration are still at
\* most one.
C25_RedeliveryKeepsOnePending ==
    BagCardinality(queue) <= 1

\* C26: an invocation is enqueued by a run only in the step that ends the
\* run after every node was dispatched and its outcome recorded, and only
\* for an interval trigger; the step in which an exception takes a run out
\* of the node loop enqueues nothing, and after it no run of the chain is
\* pending.
C26_ReenqueueOnlyAfterAllNodes ==
    [][ /\ BagCardinality(queue') > BagCardinality(queue) =>
              /\ run.pc = "loop" /\ run'.pc = "done"
              /\ Len(run.dispatched) = Len(run.nodes)
              /\ Len(run.results) = Len(run.nodes)
              /\ IsIntervalMeta(run.trigger_meta)
              /\ BagCardinality(queue') = BagCardinality(queue) + 1
        /\ run'.pc \in {"failed", "aborted"} =>
              /\ queue' = queue /\ sent' = sent
              /\ queue' = EmptyBag
      ]_vars

\* the second run of an interval chain failed, and nothing is pending
C26_Witness ==
    /\ run.pc = "failed"
    /\ IsIntervalMeta(run.trigger_meta)
    /\ nRuns = 2
    /\ BagCardinality(finished) = 1
    /\ BagCardinality(sent) = 1
    /\ queue = EmptyBag

====
